---- MODULE Spec2Model ----
(***************************************************************************)
(* A model of sheet_manager/data_model/piece.py: the Piece object (its     *)
(* in-memory index of encodings, performances and scores) together with    *)
(* the part of the filesystem it reads and writes.                         *)
(*                                                                         *)
(* Every public method is one atomic action (the code is single-threaded   *)
(* and synchronous); the methods it calls are operators on a record that   *)
(* holds the object's fields and the disk, so that an action is the whole  *)
(* call, nested update() calls included.  A raised exception is the field  *)
(* err of the result; the fields assigned before the raise keep their new  *)
(* values, as in Python.                                                   *)
(*                                                                         *)
(* Filesystem abstraction: the collection root, the piece folder,          *)
(* performances/ and scores/ are each absent or a directory; an encoding   *)
(* candidate is absent or a regular file; an entry of performances/ or     *)
(* scores/ is a regular file or a directory; I/O faults other than a       *)
(* missing or already existing path are not modelled.  meta.yml is only    *)
(* read (load_metadata, lines 226-237) and no field modelled here depends  *)
(* on it.  time.sleep(5) (line 280) changes no state.                      *)
(***************************************************************************)
EXTENDS Integers, Sequences, FiniteSets, TLC

VARIABLES fs, constructed, encodings, authority_format, authority,
          performances, scores, last, oob

vars == <<fs, constructed, encodings, authority_format, authority,
          performances, scores, last, oob>>

----------------------------------------------------------------------------
(* Bounds and inputs *)

\* Out-of-band filesystem changes (made by something other than the Piece)
\* in one behaviour.
MaxOob == 1

\* The piece's name; a path is a sequence of components <<stem, suffix>>.
PieceName == "bach"
PerfNames == {"take1", "take2"}
ScoreNames == {"s1"}

None == "None"
NoFile == <<>>

Comp(stem, ext) == <<stem, ext>>

\* Source files given to add_performance: two existing .wav files, an
\* existing .mid file and a path at which there is no file.
RecWav == <<Comp("tmp", ""), Comp("rec", ".wav")>>
AltWav == <<Comp("tmp", ""), Comp("alt", ".wav")>>
RecMid == <<Comp("tmp", ""), Comp("rec", ".mid")>>
LostWav == <<Comp("tmp", ""), Comp("lost", ".wav")>>
ExistingSources == {RecWav, AltWav, RecMid}
\* The (audio_file, midi_file) a caller passes: audio alone (either file, or
\* the missing one), audio and MIDI, a MIDI file with the audio's suffix, a
\* missing MIDI file.
SourceArgs ==
    { <<RecWav, NoFile>>, <<AltWav, NoFile>>, <<LostWav, NoFile>>,
      <<RecWav, RecMid>>, <<RecWav, AltWav>>, <<AltWav, LostWav>> }

\* Formats a caller may pass: the four supported ones and an unsupported one.
FormatArgs == {"mxml", "ly", "midi", "mei", "pdf"}

\* Suffixes of the encoding candidates <name>.<suffix> in the piece folder.
EncodingSuffixes == {".xml", ".ly", ".mid", ".midi", ".mei"}

\* The encoding file of the piece whose performances Spec and SpecSW follow
\* (bach.ly; every other set of encoding files is SpecScan's).
ScenarioSuffixes == {".ly"}

----------------------------------------------------------------------------
(* os.path and the disk *)

Join(dir, comp) == Append(dir, comp)

Basename(path) == path[Len(path)]

\* os.path.splitext(path)[-1]
SplitextLast(path) == Basename(path)[2]

\* name + suffix, as a file name
WithSuffix(name, ext) == Comp(name, ext)

\* midi += 'i'
PlusI(path) ==
    [path EXCEPT ![Len(path)] =
        Comp(Basename(path)[1], IF Basename(path)[2] = ".mid" THEN ".midi"
                                ELSE "other")]

AVAILABLE_AUTHORITIES == {"mxml", "ly", "midi", "mei"}

collection_root == <<Comp("col", "")>>
folder == Join(collection_root, Comp(PieceName, ""))
performance_dir == Join(folder, Comp("performances", ""))
score_dir == Join(folder, Comp("scores", ""))

\* os.path.isdir
IsDir(f, path) ==
    \/ path = collection_root /\ f.root
    \/ path = folder /\ f.folder
    \/ path = performance_dir /\ f.perfDir
    \/ path = score_dir /\ f.scoreDir
    \/ \E n \in DOMAIN f.perf :
          path = Join(performance_dir, Comp(n, "")) /\ f.perf[n].isdir
    \/ \E n \in DOMAIN f.score :
          path = Join(score_dir, Comp(n, "")) /\ f.score[n]

\* os.path.isfile
IsFile(f, path) ==
    \/ \E e \in f.enc : path = Join(folder, Comp(PieceName, e))
    \/ \E n \in DOMAIN f.perf :
          \/ path = Join(performance_dir, Comp(n, "")) /\ ~f.perf[n].isdir
          \/ \E x \in f.perf[n].files :
                path = Join(Join(performance_dir, Comp(n, "")), x.fname)
    \/ \E n \in DOMAIN f.score :
          path = Join(score_dir, Comp(n, "")) /\ ~f.score[n]
    \/ path \in ExistingSources

\* os.listdir of performances/ and of scores/
ListDir(f, path) ==
    IF path = performance_dir THEN DOMAIN f.perf ELSE DOMAIN f.score

EmptyDir == [isdir |-> TRUE, files |-> {}]
PlainFile == [isdir |-> FALSE, files |-> {}]

\* A dict built from (key, value) pairs, a later pair replacing an earlier
\* one with the same key.
EmptyDict == [k \in {} |-> NoFile]
Put(d, k, v) == [x \in DOMAIN d \cup {k} |-> IF x = k THEN v ELSE d[x]]
Without(d, k) == [x \in DOMAIN d \ {k} |-> d[x]]

----------------------------------------------------------------------------
(* The Piece's methods, as operators on a record s: the object's fields     *)
(* (encodings, authority_format, authority, performances, scores), the      *)
(* disk (fs), the raised exception if any (err), the arguments of the last  *)
(* call of the Performance constructor (handed), the names                  *)
(* remove_performance was called with (removed), the paths shutil.rmtree    *)
(* has deleted (deleted) and the value a public query returns (returned).   *)
(*                                                                          *)
(* Let(v, F) is F(v) with v evaluated once; Then(v, F) is the next          *)
(* statement F run on the state v unless v carries an exception.            *)

Let(v, F(_)) == CHOOSE r \in {F(x) : x \in {v}} : TRUE

Then(v, F(_)) ==
    CHOOSE r \in {IF x.err # None THEN x ELSE F(x) : x \in {v}} : TRUE

Raise(s, e) == [s EXCEPT !.err = e]

\* _ensure_piece_structure, lines 120-125
\* (a TLA+ identifier cannot start with an underscore: the leading
\* underscore of the private methods is dropped)
ensure_piece_structure(s) ==
    [s EXCEPT !.fs.perfDir = IF ~IsDir(s.fs, performance_dir) THEN TRUE
                             ELSE @,
              !.fs.scoreDir = IF ~IsDir(s.fs, score_dir) THEN TRUE ELSE @]

\* One "if os.path.isfile(path): encodings[kind] = path" of collect_encodings
PutIfFile(f, d, kind, path) == IF IsFile(f, path) THEN Put(d, kind, path) ELSE d

\* collect_encodings without the ".midi" fallback of lines 215-216.
collect_encodings_no_fallback(f) ==
    LET mxml == Join(folder, WithSuffix(PieceName, ".xml"))
        ly == Join(folder, WithSuffix(PieceName, ".ly"))
        midi == Join(folder, WithSuffix(PieceName, ".mid"))
        mei == Join(folder, WithSuffix(PieceName, ".mei"))
    IN  Let(PutIfFile(f, EmptyDict, "mxml", mxml), LAMBDA e1 :
        Let(PutIfFile(f, e1, "ly", ly), LAMBDA e2 :
        Let(PutIfFile(f, e2, "midi", midi), LAMBDA e3 :
        PutIfFile(f, e3, "mei", mei))))

\* collect_encodings, lines 201-224
collect_encodings(f) ==
    LET mxml == Join(folder, WithSuffix(PieceName, ".xml"))
        ly == Join(folder, WithSuffix(PieceName, ".ly"))
        midi0 == Join(folder, WithSuffix(PieceName, ".mid"))
        midi == IF ~IsFile(f, midi0) THEN PlusI(midi0) ELSE midi0
        mei == Join(folder, WithSuffix(PieceName, ".mei"))
    IN  Let(PutIfFile(f, EmptyDict, "mxml", mxml), LAMBDA e1 :
        Let(PutIfFile(f, e1, "ly", ly), LAMBDA e2 :
        Let(PutIfFile(f, e2, "midi", midi), LAMBDA e3 :
        PutIfFile(f, e3, "mei", mei))))

\* collect_encodings storing its result in self.encodings as well.
collect_encodings_call_storing(s) ==
    [s EXCEPT !.returned = collect_encodings(s.fs),
              !.encodings = collect_encodings(s.fs)]

\* A call of the public method collect_encodings on the object s: what it
\* does to the object and the disk (nothing is assigned, lines 204-224) and
\* the dict it returns.
collect_encodings_call(s) == [s EXCEPT !.returned = collect_encodings(s.fs)]

\* collect_performances, lines 183-190
collect_performances(f) ==
    [p \in ListDir(f, performance_dir) |-> Join(performance_dir, Comp(p, ""))]

\* collect_scores, lines 192-199
collect_scores(f) ==
    [x \in ListDir(f, score_dir) |-> Join(score_dir, Comp(x, ""))]

\* _set_authority assigning authority_format before the lookup that may
\* raise.
set_authority_early_assign(s, fmt) ==
    IF fmt \notin AVAILABLE_AUTHORITIES
    THEN Raise(s, "InvalidArgumentError")
    ELSE IF fmt \notin DOMAIN s.encodings
    THEN Raise([s EXCEPT !.authority_format = fmt],
               "MissingAuthorityEncodingError")
    ELSE [s EXCEPT !.authority_format = fmt,
                   !.authority = s.encodings[fmt]]

\* _set_authority, lines 164-181
set_authority(s, fmt) ==
    IF fmt \notin AVAILABLE_AUTHORITIES
    THEN Raise(s, "InvalidArgumentError")
    ELSE IF fmt \notin DOMAIN s.encodings
    THEN Raise(s, "MissingAuthorityEncodingError")
    ELSE [s EXCEPT !.authority_format = fmt,
                   !.authority = s.encodings[fmt]]

\* update adding what it finds to the index in place of replacing it.
update_incremental(s) ==
    Let([s EXCEPT !.encodings = collect_encodings(s.fs)], LAMBDA s1 :
    Then(set_authority(s1, s1.authority_format), LAMBDA s2 :
    Let(ensure_piece_structure(s2), LAMBDA s3 :
    [s3 EXCEPT !.performances =
                   [n \in DOMAIN s3.performances
                           \cup DOMAIN collect_performances(s3.fs) |->
                       Join(performance_dir, Comp(n, ""))],
               !.scores = collect_scores(s3.fs)])))

\* update, lines 154-162
update(s) ==
    Let([s EXCEPT !.encodings = collect_encodings(s.fs)], LAMBDA s1 :
    Then(set_authority(s1, s1.authority_format), LAMBDA s2 :
    Let(ensure_piece_structure(s2), LAMBDA s3 :
    [s3 EXCEPT !.performances = collect_performances(s3.fs),
               !.scores = collect_scores(s3.fs)])))

\* The Performance constructor (sheet_manager.data_model.performance): it is
\* given a directory and the piece's name and may reject a malformed
\* directory.  A directory laid out as <perfName>/<perfName>.<ext> is well
\* formed; on any other the verdict is the input accept.
WellFormed(f, dir) ==
    LET n == Basename(dir)[1]
    IN  /\ n \in DOMAIN f.perf
        /\ f.perf[n].isdir
        /\ \E x \in f.perf[n].files : x.fname[1] = n

Performance(s, dir, piece_name, accept) ==
    IF WellFormed(s.fs, dir) \/ accept
    THEN [s EXCEPT !.handed = <<dir, piece_name>>]
    ELSE [s EXCEPT !.handed = <<dir, piece_name>>,
                   !.err = "PerformanceLoaderError"]

\* load_score raising without the update() of line 128.
load_score_no_update(s, score_name) == Raise(s, "NotImplementedError")

\* load_score, lines 127-129
load_score(s, score_name) ==
    Then(update(s), LAMBDA s1 : Raise(s1, "NotImplementedError"))

\* load_performance, lines 134-148
load_performance(s, performance_name, accept) ==
    Then(update(s), LAMBDA s1 :
    IF performance_name \notin DOMAIN s1.performances
    THEN Raise(s1, "PerformanceNotFoundError")
    ELSE Performance(s1, s1.performances[performance_name], PieceName,
                     accept))

\* shutil.rmtree(path) of an entry of performances/
rmtree(s, path) ==
    LET n == Basename(path)[1]
    IN  IF n \notin DOMAIN s.fs.perf THEN Raise(s, "OSError")
        ELSE IF ~s.fs.perf[n].isdir THEN Raise(s, "OSError")
        ELSE [s EXCEPT !.fs.perf = Without(s.fs.perf, n),
                       !.deleted = Append(s.deleted, path)]

\* remove_performance refreshing the index without deleting the directory.
remove_performance_index_only(s, name) ==
    Then(update([s EXCEPT !.removed = Append(s.removed, name)]), LAMBDA s1 :
    IF name \notin DOMAIN s1.performances THEN s1 ELSE update(s1))

\* remove_performance treating an absent name as an error.
remove_performance_strict(s, name) ==
    Then(update([s EXCEPT !.removed = Append(s.removed, name)]), LAMBDA s1 :
    IF name \notin DOMAIN s1.performances
    THEN Raise(s1, "PerformanceNotFoundError")
    ELSE Then(rmtree(s1, s1.performances[name]), LAMBDA s2 : update(s2)))

\* remove_performance, lines 244-253
remove_performance(s, name) ==
    Then(update([s EXCEPT !.removed = Append(s.removed, name)]), LAMBDA s1 :
    IF name \notin DOMAIN s1.performances THEN s1
    ELSE Then(rmtree(s1, s1.performances[name]), LAMBDA s2 : update(s2)))

\* The sequences that list each element of S once.
Orders(S) ==
    {q \in [1..Cardinality(S) -> S] : \A x \in S : \E i \in DOMAIN q : q[i] = x}

\* The loop of clear_performances reading self.performances afresh after
\* each removal.
RECURSIVE clear_loop_live(_, _)
clear_loop_live(s, order) ==
    IF order = <<>> THEN s
    ELSE Then(remove_performance(s, Head(order)), LAMBDA s1 :
         clear_loop_live(s1,
             CHOOSE q \in Orders(DOMAIN s1.performances \ {Head(order)}) :
                 TRUE))

\* clear_performances, lines 239-242: the loop runs over the dict object
\* that self.performances named when the loop started, in the dict's order
\* (order: a sequence of its keys); update() binds self.performances to a
\* new dict and leaves that object alone.  An exception ends the loop.
RECURSIVE clear_loop(_, _)
clear_loop(s, order) ==
    IF order = <<>> THEN s
    ELSE Then(remove_performance(s, Head(order)), LAMBDA s1 :
         clear_loop(s1, Tail(order)))

clear_performances(s, order) == clear_loop(s, order)

\* os.mkdir accepting a directory that is already there.
mkdir_exist_ok(s, path) ==
    LET n == Basename(path)[1]
    IN  IF ~IsDir(s.fs, SubSeq(path, 1, Len(path) - 1))
        THEN Raise(s, "OSError")
        ELSE IF n \in DOMAIN s.fs.perf
        THEN IF s.fs.perf[n].isdir THEN s ELSE Raise(s, "AlreadyExistsError")
        ELSE [s EXCEPT !.fs.perf = Put(s.fs.perf, n, EmptyDir)]

\* os.mkdir(path) of an entry of performances/
mkdir(s, path) ==
    LET n == Basename(path)[1]
    IN  IF ~IsDir(s.fs, SubSeq(path, 1, Len(path) - 1))
        THEN Raise(s, "OSError")
        ELSE IF n \in DOMAIN s.fs.perf THEN Raise(s, "AlreadyExistsError")
        ELSE [s EXCEPT !.fs.perf = Put(s.fs.perf, n, EmptyDir)]

\* shutil.copyfile(src, dst), dst a file of an entry of performances/
copyfile(s, src, dst) ==
    LET n == dst[Len(dst) - 1][1]
    IN  IF ~IsFile(s.fs, src) THEN Raise(s, "SourceFileNotFoundError")
        ELSE [s EXCEPT !.fs.perf[n].files =
                  {x \in @ : x.fname # Basename(dst)}
                      \cup {[fname |-> Basename(dst), data |-> src]}]

\* The check of lines 276-284 overwriting whatever the flag says.
add_existing_ignores_flag(s, name, overwrite) ==
    IF name \in DOMAIN s.performances THEN remove_performance(s, name) ELSE s

\* The "if name in self.performances" of add_performance, lines 276-284
add_existing(s, name, overwrite) ==
    IF name \in DOMAIN s.performances
    THEN IF overwrite THEN remove_performance(s, name)
         ELSE Raise(s, "PerformanceExistsError")
    ELSE s

\* The copy's path with a fixed suffix in place of the source file's.
perf_filename_fixed_suffix(dir, name, file) ==
    Join(dir, WithSuffix(name, ".wav"))

\* lines 290-292 and 296-298: the copy's path, <dir>/<name><suffix of file>
perf_filename(dir, name, file) ==
    Join(dir, WithSuffix(name, SplitextLast(file)))

\* add_performance refreshing the index right after os.mkdir as well.
add_performance_update_early(s, name, audio_file, midi_file, overwrite, accept) ==
    LET new_performance_dir == Join(performance_dir, Comp(name, ""))
        perf_audio_filename ==
            perf_filename(new_performance_dir, name, audio_file)
        perf_midi_filename ==
            perf_filename(new_performance_dir, name, midi_file)
    IN  Then(add_existing(s, name, overwrite), LAMBDA s1 :
        Then(mkdir(s1, new_performance_dir), LAMBDA s2 :
        Then(update(s2), LAMBDA s2u :
        Then(copyfile(s2u, audio_file, perf_audio_filename), LAMBDA s3 :
        Then(IF midi_file # NoFile
             THEN copyfile(s3, midi_file, perf_midi_filename)
             ELSE s3, LAMBDA s4 :
        Then(update(s4), LAMBDA s5 :
        load_performance(s5, name, accept)))))))

\* add_performance testing for the audio file before anything else.
add_performance_source_first(s, name, audio_file, midi_file, overwrite, accept) ==
    LET new_performance_dir == Join(performance_dir, Comp(name, ""))
        perf_audio_filename ==
            perf_filename(new_performance_dir, name, audio_file)
        perf_midi_filename ==
            perf_filename(new_performance_dir, name, midi_file)
    IN  IF ~IsFile(s.fs, audio_file)
        THEN Raise(s, "SourceFileNotFoundError")
        ELSE
        Then(add_existing(s, name, overwrite), LAMBDA s1 :
        Then(mkdir(s1, new_performance_dir), LAMBDA s2 :
        Then(copyfile(s2, audio_file, perf_audio_filename), LAMBDA s3 :
        Then(IF midi_file # NoFile
             THEN copyfile(s3, midi_file, perf_midi_filename)
             ELSE s3, LAMBDA s4 :
        Then(update(s4), LAMBDA s5 :
        load_performance(s5, name, accept))))))

\* add_performance, lines 276-304
add_performance(s, name, audio_file, midi_file, overwrite, accept) ==
    LET new_performance_dir == Join(performance_dir, Comp(name, ""))
        perf_audio_filename ==
            perf_filename(new_performance_dir, name, audio_file)
        perf_midi_filename ==
            perf_filename(new_performance_dir, name, midi_file)
    IN  Then(add_existing(s, name, overwrite), LAMBDA s1 :
        Then(mkdir(s1, new_performance_dir), LAMBDA s2 :
        Then(copyfile(s2, audio_file, perf_audio_filename), LAMBDA s3 :
        Then(IF midi_file # NoFile
             THEN copyfile(s3, midi_file, perf_midi_filename)
             ELSE s3, LAMBDA s4 :
        Then(update(s4), LAMBDA s5 :
        load_performance(s5, name, accept))))))

\* lines 96-118 of __init__: the object is filled in from the disk.
init_scan(s, authority_fmt) ==
    Let(ensure_piece_structure(s), LAMBDA s1 :
    Let([s1 EXCEPT !.encodings = collect_encodings(s1.fs)], LAMBDA s2 :
    IF authority_fmt \notin DOMAIN s2.encodings
    THEN Raise(s2, "MissingAuthorityEncodingError")
    ELSE [s2 EXCEPT !.authority_format = authority_fmt,
                    !.authority = s2.encodings[authority_fmt],
                    !.performances = collect_performances(s2.fs),
                    !.scores = collect_scores(s2.fs)]))

\* __init__ with the format validated before the two directories.
init_format_first(s, authority_fmt) ==
    IF authority_fmt \notin AVAILABLE_AUTHORITIES
    THEN Raise(s, "InvalidArgumentError")
    ELSE IF ~IsDir(s.fs, collection_root)
    THEN Raise(s, "CollectionNotFoundError")
    ELSE IF ~IsDir(s.fs, folder)
    THEN Raise(s, "PieceNotFoundError")
    ELSE init_scan(s, authority_fmt)

\* __init__, lines 83-118; s holds the disk and the fields of the object
\* under construction.
init(s, authority_fmt) ==
    IF ~IsDir(s.fs, collection_root)
    THEN Raise(s, "CollectionNotFoundError")
    ELSE IF ~IsDir(s.fs, folder)
    THEN Raise(s, "PieceNotFoundError")
    ELSE IF authority_fmt \notin AVAILABLE_AUTHORITIES
    THEN Raise(s, "InvalidArgumentError")
    ELSE init_scan(s, authority_fmt)

----------------------------------------------------------------------------
(* The state machine *)

EmptyFn == [n \in {} |-> EmptyDir]
EmptyScores == [n \in {} |-> TRUE]

Take1Dir ==
    [isdir |-> TRUE,
     files |-> {[fname |-> WithSuffix("take1", ".wav"), data |-> RecWav]}]

\* The performances/ and scores/ a Piece may be constructed over: both
\* missing, or performances/ with a performance and a regular file and
\* scores/ with a regular file.
InitDirs ==
    { [perfDir |-> FALSE, perf |-> EmptyFn,
       scoreDir |-> FALSE, score |-> EmptyScores],
      [perfDir |-> TRUE,
       perf |-> Put(Put(EmptyFn, "take1", Take1Dir), "take2", PlainFile),
       scoreDir |-> TRUE, score |-> Put(EmptyScores, "s1", FALSE)] }

Disk(r, d, e, x) ==
    [root |-> r, folder |-> d, enc |-> e, perfDir |-> x.perfDir,
     perf |-> x.perf, scoreDir |-> x.scoreDir, score |-> x.score]

NoCollection == Disk(FALSE, FALSE, {}, CHOOSE x \in InitDirs : ~x.perfDir)
NoPiece == Disk(TRUE, FALSE, {}, CHOOSE x \in InitDirs : ~x.perfDir)

\* The disks of Spec and SpecSW: a piece with bach.ly, or no piece, over
\* each layout of InitDirs.
InitFs ==
    {NoCollection, NoPiece}
        \cup {Disk(TRUE, TRUE, ScenarioSuffixes, x) : x \in InitDirs}

\* The disks of SpecScan: every set of encoding candidates.
InitFsScan ==
    {NoCollection, NoPiece}
        \cup {Disk(TRUE, TRUE, e, x) :
                 e \in SUBSET EncodingSuffixes,
                 x \in InitDirs}

NoCall ==
    [op |-> "none", name |-> "", fmt |-> "", overwrite |-> FALSE,
     err |-> None, handed |-> <<>>, removed |-> <<>>, deleted |-> <<>>,
     returned |-> EmptyDict]

InitPiece ==
    /\ constructed = FALSE
    /\ encodings = EmptyDict
    /\ authority_format = None
    /\ authority = NoFile
    /\ performances = EmptyDict
    /\ scores = EmptyDict
    /\ last = NoCall
    /\ oob = 0

Init == fs \in InitFs /\ InitPiece

InitScan == fs \in InitFsScan /\ InitPiece

\* The object and the disk when a method is entered.
Cur ==
    [fs |-> fs, encodings |-> encodings,
     authority_format |-> authority_format, authority |-> authority,
     performances |-> performances, scores |-> scores,
     err |-> None, handed |-> <<>>, removed |-> <<>>, deleted |-> <<>>,
     returned |-> EmptyDict]

\* The object and the disk when the method has returned or raised.
Commit(result, call) ==
    \E r \in {result} :
        /\ fs' = r.fs
        /\ encodings' = r.encodings
        /\ authority_format' = r.authority_format
        /\ authority' = r.authority
        /\ performances' = r.performances
        /\ scores' = r.scores
        /\ last' = [call EXCEPT !.err = r.err, !.handed = r.handed,
                                !.removed = r.removed,
                                !.deleted = r.deleted,
                                !.returned = r.returned]

\* Piece(name, root, authority_format): a failed construction leaves no
\* object, only what it did to the disk.
Construct(fmt) ==
    /\ ~constructed
    /\ last.op = "none"
    /\ \E r \in {init(Cur, fmt)} :
          LET call == [NoCall EXCEPT !.op = "construct", !.fmt = fmt]
          IN  IF r.err = None
              THEN Commit(r, call) /\ constructed' = TRUE
              ELSE /\ fs' = r.fs
                   /\ last' = [call EXCEPT !.err = r.err]
                   /\ UNCHANGED <<constructed, encodings, authority_format,
                                  authority, performances, scores>>
    /\ UNCHANGED oob

SetAuthority(fmt) ==
    /\ constructed
    /\ Commit(set_authority(Cur, fmt),
              [NoCall EXCEPT !.op = "set_authority", !.fmt = fmt])
    /\ UNCHANGED <<constructed, oob>>

Update ==
    /\ constructed
    /\ Commit(update(Cur), [NoCall EXCEPT !.op = "update"])
    /\ UNCHANGED <<constructed, oob>>

CollectEncodings ==
    /\ constructed
    /\ Commit(collect_encodings_call(Cur),
              [NoCall EXCEPT !.op = "collect_encodings"])
    /\ UNCHANGED <<constructed, oob>>

LoadScore(n) ==
    /\ constructed
    /\ Commit(load_score(Cur, n),
              [NoCall EXCEPT !.op = "load_score", !.name = n])
    /\ UNCHANGED <<constructed, oob>>

LoadPerformance(n, accept) ==
    /\ constructed
    /\ Commit(load_performance(Cur, n, accept),
              [NoCall EXCEPT !.op = "load_performance", !.name = n])
    /\ UNCHANGED <<constructed, oob>>

\* The directory add_performance hands to the Performance constructor
\* holds the audio file it has just copied, so the constructor's verdict on
\* a malformed directory is never asked for; "reject" is passed.
AddPerformance(n, audio, midi, overwrite) ==
    /\ constructed
    /\ Commit(add_performance(Cur, n, audio, midi, overwrite, FALSE),
              [NoCall EXCEPT !.op = "add_performance", !.name = n,
                             !.overwrite = overwrite])
    /\ UNCHANGED <<constructed, oob>>

RemovePerformance(n) ==
    /\ constructed
    /\ Commit(remove_performance(Cur, n),
              [NoCall EXCEPT !.op = "remove_performance", !.name = n])
    /\ UNCHANGED <<constructed, oob>>

ClearPerformances ==
    /\ constructed
    /\ \E order \in Orders(DOMAIN performances) :
          Commit(clear_performances(Cur, order),
                 [NoCall EXCEPT !.op = "clear_performances"])
    /\ UNCHANGED <<constructed, oob>>

(* Changes of the disk by something other than the Piece. *)

EnvStep(f, cost) ==
    /\ constructed
    /\ oob + cost <= MaxOob
    /\ fs' = f
    /\ oob' = oob + cost
    /\ last' = [NoCall EXCEPT !.op = "env"]
    /\ UNCHANGED <<constructed, encodings, authority_format, authority,
                   performances, scores>>

Toggle(f, e) ==
    [f EXCEPT !.enc = IF e \in f.enc THEN f.enc \ {e} ELSE f.enc \cup {e}]

EnvEncoding(e) == EnvStep(Toggle(fs, e), 1)

\* The same change, any number of times (SpecScan).
EncodingFileChanges(e) == EnvStep(Toggle(fs, e), 0)

EnvPerfCreate(n, entry) ==
    /\ fs.perfDir
    /\ n \notin DOMAIN fs.perf
    /\ EnvStep([fs EXCEPT !.perf = Put(fs.perf, n, entry)], 1)

EnvPerfDelete(n) ==
    /\ n \in DOMAIN fs.perf
    /\ EnvStep([fs EXCEPT !.perf = Without(fs.perf, n)], 1)

EnvScoreCreate(n, isdir) ==
    /\ fs.scoreDir
    /\ n \notin DOMAIN fs.score
    /\ EnvStep([fs EXCEPT !.score = Put(fs.score, n, isdir)], 1)

EnvScoreDelete(n) ==
    /\ n \in DOMAIN fs.score
    /\ EnvStep([fs EXCEPT !.score = Without(fs.score, n)], 1)

EnvRemovePerformanceDir ==
    /\ fs.perfDir
    /\ EnvStep([fs EXCEPT !.perfDir = FALSE, !.perf = EmptyFn], 1)

EnvRemoveScoreDir ==
    /\ fs.scoreDir
    /\ EnvStep([fs EXCEPT !.scoreDir = FALSE, !.score = EmptyScores], 1)

PieceNext ==
    \/ \E fmt \in FormatArgs : Construct(fmt)
    \/ \E fmt \in FormatArgs : SetAuthority(fmt)
    \/ Update
    \/ \E n \in ScoreNames : LoadScore(n)
    \/ \E n \in PerfNames, accept \in BOOLEAN : LoadPerformance(n, accept)
    \/ \E n \in PerfNames, src \in SourceArgs, overwrite \in BOOLEAN :
          AddPerformance(n, src[1], src[2], overwrite)
    \/ \E n \in PerfNames : RemovePerformance(n)
    \/ ClearPerformances

\* Out-of-band changes of the piece's encoding files and of performances/.
EnvNext ==
    \/ \E e \in ScenarioSuffixes : EnvEncoding(e)
    \/ \E n \in PerfNames, entry \in {EmptyDir, PlainFile} :
          EnvPerfCreate(n, entry)
    \/ \E n \in PerfNames : EnvPerfDelete(n)
    \/ EnvRemovePerformanceDir

Next == PieceNext \/ EnvNext

\* The Piece, and an environment that changes the encoding files and
\* performances/ up to MaxOob times.
Spec == Init /\ [][Next]_vars

\* Single writer: the disk is changed by the Piece's own operations only.
SpecSW == Init /\ [][PieceNext]_vars

\* The scanning operations (construction, _set_authority, update,
\* collect_encodings, load_score) over every set of encoding files, the files appearing and
\* disappearing between the calls, with up to MaxOob out-of-band changes of
\* scores/ and removals of performances/.
ScanNext ==
    \/ \E fmt \in FormatArgs : Construct(fmt)
    \/ \E fmt \in FormatArgs : SetAuthority(fmt)
    \/ Update
    \/ CollectEncodings
    \/ \E n \in ScoreNames : LoadScore(n)
    \/ \E e \in EncodingSuffixes : EncodingFileChanges(e)
    \/ \E n \in ScoreNames, isdir \in BOOLEAN : EnvScoreCreate(n, isdir)
    \/ \E n \in ScoreNames : EnvScoreDelete(n)
    \/ EnvRemoveScoreDir
    \/ EnvRemovePerformanceDir

SpecScan == InitScan /\ [][ScanNext]_vars

----------------------------------------------------------------------------
(* The claims *)

\* The path of the encoding candidate <folder>/<name><suffix>, written out.
CandidatePath(suffix) ==
    <<<<"col", "">>, <<"bach", "">>, <<"bach", suffix>>>>

\* The kinds for which the disk holds a matching file.
KindsOnDisk ==
    {k \in {"mxml", "ly", "midi", "mei"} :
        \/ k = "mxml" /\ ".xml" \in fs.enc
        \/ k = "ly" /\ ".ly" \in fs.enc
        \/ k = "midi" /\ (".mid" \in fs.enc \/ ".midi" \in fs.enc)
        \/ k = "mei" /\ ".mei" \in fs.enc}

\* C1 (as claimed): in every state reached after a successful construction
\* by _set_authority and update calls, failed ones included, with encoding
\* files appearing and disappearing in between, authority_format is one of
\* the four formats, is a key of encodings, and encodings[authority_format]
\* is authority.
C1_AuthorityInvariant ==
    (constructed /\ last.op \in {"construct", "set_authority", "update"}) =>
        /\ authority_format \in {"mxml", "ly", "midi", "mei"}
        /\ authority_format \in DOMAIN encodings
        /\ encodings[authority_format] = authority

\* C2: _set_authority(format) either succeeds and sets authority_format to
\* format and authority to encodings[format], or fails and leaves the Piece
\* and the disk as they were: with InvalidArgumentError for a format outside
\* the four, with MissingAuthorityEncodingError for one of the four that is
\* no key of encodings.
C2_SetAuthorityStep ==
    last'.op = "set_authority" =>
        /\ last'.err =
              IF last'.fmt \notin {"mxml", "ly", "midi", "mei"}
              THEN "InvalidArgumentError"
              ELSE IF last'.fmt \notin DOMAIN encodings
              THEN "MissingAuthorityEncodingError"
              ELSE None
        /\ last'.err = None =>
              /\ authority_format' = last'.fmt
              /\ last'.fmt \in DOMAIN encodings
              /\ authority' = encodings[last'.fmt]
              /\ UNCHANGED <<encodings, performances, scores, fs>>
        /\ last'.err # None =>
              UNCHANGED <<authority_format, authority, encodings,
                          performances, scores, fs>>

C2_SetAuthorityAtomic == [][C2_SetAuthorityStep]_vars

\* A failed _set_authority on a Piece whose authority is in place.
C2_Witness ==
    /\ constructed
    /\ last.op = "set_authority"
    /\ last.err = "MissingAuthorityEncodingError"
    /\ authority_format \in DOMAIN encodings
    /\ encodings[authority_format] = authority

\* C3: Piece(name, root, authority_format) succeeds exactly when root and
\* root/name exist, the format is one of the four and its encoding file is
\* on disk; otherwise it fails with CollectionNotFoundError, else
\* PieceNotFoundError, else InvalidArgumentError, else
\* MissingAuthorityEncodingError, and there is no Piece.
C3_Construction ==
    last.op = "construct" =>
        /\ last.err =
              IF ~fs.root THEN "CollectionNotFoundError"
              ELSE IF ~fs.folder THEN "PieceNotFoundError"
              ELSE IF last.fmt \notin {"mxml", "ly", "midi", "mei"}
              THEN "InvalidArgumentError"
              ELSE IF last.fmt \notin KindsOnDisk
              THEN "MissingAuthorityEncodingError"
              ELSE None
        /\ constructed <=> last.err = None

\* The scenario of the specification: bach.ly and bach.mid on disk, mxml
\* asked for.
C3_Witness ==
    /\ last.op = "construct"
    /\ last.fmt = "mxml"
    /\ fs.enc = {".ly", ".mid"}
    /\ last.err = "MissingAuthorityEncodingError"
    /\ ~constructed

\* C4: for every set of candidate files on disk, discovery returns the
\* mapping whose keys are the kinds with a matching file and whose values
\* are <folder>/<name>.xml, .ly, .mei and, for midi, .mid when it exists and
\* .midi otherwise; no kind's entry depends on another kind's files.
C4_Discovery ==
    (\/ last.op \in {"update", "load_score"}
     \/ last.op = "construct" /\ constructed) =>
        /\ DOMAIN encodings = KindsOnDisk
        /\ "mxml" \in DOMAIN encodings =>
              encodings["mxml"] = CandidatePath(".xml")
        /\ "ly" \in DOMAIN encodings =>
              encodings["ly"] = CandidatePath(".ly")
        /\ "mei" \in DOMAIN encodings =>
              encodings["mei"] = CandidatePath(".mei")
        /\ "midi" \in DOMAIN encodings =>
              encodings["midi"] = IF ".mid" \in fs.enc
                                  THEN CandidatePath(".mid")
                                  ELSE CandidatePath(".midi")

\* Discovery has fallen back on bach.midi, beside another kind.
C4_Witness ==
    /\ last.op = "update"
    /\ fs.enc = {".xml", ".midi"}
    /\ DOMAIN encodings = {"mxml", "midi"}
    /\ encodings["midi"] = CandidatePath(".midi")

\* The names of the entries of performances/ and of scores/ that are
\* directories.
PerformanceDirsOnDisk == {n \in DOMAIN fs.perf : fs.perf[n].isdir}
ScoreDirsOnDisk == {n \in DOMAIN fs.score : fs.score[n]}

\* C5 (as claimed): after every successful scan (construction or update) the
\* keys of performances are the names of the entries of performances/ that
\* are directories, and the keys of scores those of scores/; a regular file
\* in either is no key.
C5_KeysAreDirectories ==
    (constructed /\ last.op \in {"construct", "update"} /\ last.err = None) =>
        /\ DOMAIN performances = PerformanceDirsOnDisk
        /\ DOMAIN scores = ScoreDirsOnDisk

\* C6 (as claimed): with the Piece the only writer, after every public
\* operation, returned or failed, every name in performances has a directory
\* performances/<name> on disk.
C6_IndexWithinDisk ==
    constructed => DOMAIN performances \subseteq PerformanceDirsOnDisk

\* The names add_performance(n, audio, midi) is to leave in performances/n.
ExpectedNames(n, audio, midi) ==
    {<<n, audio[Len(audio)][2]>>}
        \cup IF midi = NoFile THEN {} ELSE {<<n, midi[Len(midi)][2]>>}

FileNames(entry) == {x.fname : x \in entry.files}

PerformancePath(n) ==
    <<<<"col", "">>, <<"bach", "">>, <<"performances", "">>, <<n, "">>>>

AddReturned == last.op = "add_performance" /\ last.err = None

\* C7: whenever add_performance(name, audio, midi) returns, name is a key of
\* performances and performances/<name> is a directory holding the file
\* name+suffix(audio), the file name+suffix(midi) if midi was given, and
\* nothing else; a load_performance(name) called next passes its lookup and
\* hands performances/<name> and the piece's name to the Performance
\* constructor.
C7_Step ==
    /\ \A src \in SourceArgs :
          (/\ last'.op = "add_performance"
           /\ last'.err = None
           /\ AddPerformance(last'.name, src[1], src[2], last'.overwrite)) =>
              /\ last'.name \in DOMAIN performances'
              /\ last'.name \in DOMAIN fs'.perf
              /\ fs'.perf[last'.name].isdir
              /\ FileNames(fs'.perf[last'.name]) =
                    ExpectedNames(last'.name, src[1], src[2])
    /\ (/\ AddReturned
        /\ last'.op = "load_performance"
        /\ last'.name = last.name) =>
           /\ last'.err \in {None, "PerformanceLoaderError"}
           /\ last'.handed = <<PerformancePath(last.name), "bach">>

C7_RoundTrip == [][C7_Step]_vars

\* add_performance has returned with an audio and a MIDI file in place.
C7_Witness ==
    /\ AddReturned
    /\ last.name \in DOMAIN performances
    /\ FileNames(fs.perf[last.name]) =
          {<<last.name, ".wav">>, <<last.name, ".mid">>}

\* C8: after add_performance(name, ...) has returned, a second
\* add_performance(name, ...) with overwrite false fails with
\* PerformanceExistsError and leaves performances/<name> and the index as
\* they were.
C8_Step ==
    (/\ AddReturned
     /\ last'.op = "add_performance"
     /\ last'.name = last.name
     /\ ~last'.overwrite) =>
        /\ last'.err = "PerformanceExistsError"
        /\ last.name \in DOMAIN fs'.perf
        /\ fs'.perf[last.name] = fs.perf[last.name]
        /\ performances' = performances

C8_NoOverwrite == [][C8_Step]_vars

\* The refused second add_performance, the performance still in place.
C8_Witness ==
    /\ last.op = "add_performance"
    /\ ~last.overwrite
    /\ last.err = "PerformanceExistsError"
    /\ last.name \in DOMAIN performances
    /\ last.name \in PerformanceDirsOnDisk
    /\ fs.perf[last.name].files # {}

\* C9: after add_performance(name, a1, m1) has returned, a second
\* add_performance(name, a2, m2, overwrite=True) whose source files exist
\* returns too, and performances/<name> then holds name+suffix(a2), and
\* name+suffix(m2) if m2 was given, copied from a2 and m2, and no other
\* file; name is still a key of performances.
C9_Step ==
    (/\ AddReturned
     /\ last'.op = "add_performance"
     /\ last'.name = last.name
     /\ last'.overwrite) =>
        \A src \in SourceArgs :
            (/\ src[1] \in ExistingSources
             /\ src[2] \in ExistingSources \cup {NoFile}
             /\ AddPerformance(last.name, src[1], src[2], TRUE)) =>
                /\ last'.err = None
                /\ last.name \in DOMAIN performances'
                /\ last.name \in DOMAIN fs'.perf
                /\ fs'.perf[last.name].isdir
                /\ FileNames(fs'.perf[last.name]) =
                      ExpectedNames(last.name, src[1], src[2])
                /\ \A x \in fs'.perf[last.name].files :
                      x.data \in {src[1], src[2]}

C9_Overwrite == [][C9_Step]_vars

\* The overwriting add_performance has returned: the one file of the
\* directory is the copy of the second call's audio file.
C9_Witness ==
    /\ AddReturned
    /\ last.overwrite
    /\ last.name = "take1"
    /\ fs.perf["take1"].files =
          {[fname |-> <<"take1", ".wav">>,
            data |-> <<<<"tmp", "">>, <<"alt", ".wav">>>>]}

\* C10 (as claimed): after clear_performances() has returned, from any
\* reachable state, performances is empty and performances/ holds no
\* directory.
C10_AllCleared ==
    (last.op = "clear_performances" /\ last.err = None) =>
        /\ DOMAIN performances = {}
        /\ PerformanceDirsOnDisk = {}

\* The index a scan of performances/ gives.
ScanOfPerformances(f) == [n \in DOMAIN f.perf |-> PerformancePath(n)]

\* The index a scan of scores/ gives.
ScanOfScores(f) ==
    [n \in DOMAIN f.score |->
        <<<<"col", "">>, <<"bach", "">>, <<"scores", "">>, <<n, "">>>>]

\* C11 (as claimed): remove_performance(name) for a name that is neither in
\* the index nor in performances/ does not raise, leaves the disk as it was
\* and leaves the performances index unchanged.
C11_AsClaimedStep ==
    (/\ last'.op = "remove_performance"
     /\ last'.name \notin DOMAIN fs.perf
     /\ last'.name \notin DOMAIN performances) =>
        /\ last'.err = None
        /\ fs' = fs
        /\ performances' = performances

C11_NoOpAsClaimed == [][C11_AsClaimedStep]_vars

\* C11 (amended): remove_performance(name) for a name with no entry in
\* performances/ raises only when its re-scan fails (the authority file is
\* gone: MissingAuthorityEncodingError), deletes nothing on disk, and leaves
\* the index as the re-scan finds the disk: unchanged when it listed the
\* entries of performances/ before the call.
C11_Step ==
    (last'.op = "remove_performance" /\ last'.name \notin DOMAIN fs.perf) =>
        /\ last'.err = IF authority_format \in KindsOnDisk THEN None
                       ELSE "MissingAuthorityEncodingError"
        /\ last'.deleted = <<>>
        /\ fs'.perf = fs.perf
        /\ fs'.score = fs.score
        /\ fs'.enc = fs.enc
        /\ last'.err = None => performances' = ScanOfPerformances(fs)
        /\ DOMAIN performances = DOMAIN fs.perf => performances' = performances

C11_NoOp == [][C11_Step]_vars

\* remove_performance has returned without deleting: its name has no entry
\* in performances/, and another performance is still there with its file.
C11_Witness ==
    /\ last.op = "remove_performance"
    /\ last.err = None
    /\ last.removed = <<"take2">>
    /\ last.deleted = <<>>
    /\ "take2" \notin DOMAIN fs.perf
    /\ DOMAIN performances = {"take1"}
    /\ fs.perf["take1"].files # {}

\* The index lists what is on disk: the kinds with a file, the entries of
\* performances/ and of scores/.
IndexReflectsDisk ==
    /\ DOMAIN encodings = KindsOnDisk
    /\ performances = ScanOfPerformances(fs)
    /\ scores = ScanOfScores(fs)

\* C12 (as claimed): in every reachable state load_score(name) fails with
\* NotImplementedError and with no other error, and after the call the
\* index reflects the disk.
C12_AsClaimed ==
    last.op = "load_score" =>
        /\ last.err = "NotImplementedError"
        /\ IndexReflectsDisk

\* C12 (amended): load_score(name) never returns; it calls update() first
\* and fails with NotImplementedError when the file of the current
\* authority_format is on disk, the index then reflecting the disk at the
\* time of the call; when that file has disappeared it fails with update()'s
\* MissingAuthorityEncodingError.
C12_LoadScore ==
    last.op = "load_score" =>
        /\ last.err = IF authority_format \in KindsOnDisk
                      THEN "NotImplementedError"
                      ELSE "MissingAuthorityEncodingError"
        /\ last.err = "NotImplementedError" =>
              /\ IndexReflectsDisk
              /\ fs.perfDir
              /\ fs.scoreDir

\* load_score has failed with NotImplementedError after picking up a score
\* directory made out of band.
C12_Witness ==
    /\ last.op = "load_score"
    /\ last.err = "NotImplementedError"
    /\ "s1" \in DOMAIN fs.score
    /\ fs.score["s1"]
    /\ "s1" \in DOMAIN scores

\* The mapping of section 4.3 for the files on disk.
ExpectedEncodings ==
    [k \in KindsOnDisk |->
        IF k = "mxml" THEN CandidatePath(".xml")
        ELSE IF k = "ly" THEN CandidatePath(".ly")
        ELSE IF k = "mei" THEN CandidatePath(".mei")
        ELSE IF ".mid" \in fs.enc THEN CandidatePath(".mid")
        ELSE CandidatePath(".midi")]

\* C13: a call of collect_encodings changes neither the disk nor any field
\* of the Piece (encodings, authority_format, authority, performances,
\* scores); it returns the mapping determined by the folder, the name and
\* the files present, and a second call right after the first returns the
\* same mapping.
C13_Step ==
    last'.op = "collect_encodings" =>
        /\ UNCHANGED <<fs, encodings, authority_format, authority,
                       performances, scores>>
        /\ last'.err = None
        /\ last'.returned = ExpectedEncodings
        /\ last.op = "collect_encodings" => last'.returned = last.returned

C13_DiscoveryPure == [][C13_Step]_vars

\* collect_encodings has returned the mapping of the files now on disk,
\* bach.xml and bach.midi, and self.encodings still holds the older scan.
C13_Witness ==
    /\ last.op = "collect_encodings"
    /\ fs.enc = {".xml", ".midi"}
    /\ DOMAIN last.returned = {"mxml", "midi"}
    /\ DOMAIN encodings = {"ly"}

\* C14 (as claimed): with the Piece the only writer, no add_performance
\* that has passed the check of its step 1 fails in os.mkdir because
\* performances/<name> is already there.
C14_DirectoryNeverPresent ==
    last.op = "add_performance" => last.err # "AlreadyExistsError"

\* C15: update() succeeds when the file of the current authority_format is
\* on disk and fails with MissingAuthorityEncodingError when it is not;
\* after a success encodings, authority, performances and scores are what
\* the disk and authority_format give, whatever the index held before, and
\* performances/ and scores/ exist; a second update() right after leaves the
\* Piece and the disk unchanged.
C15_Step ==
    last'.op = "update" =>
        /\ last'.err = IF authority_format \in KindsOnDisk THEN None
                       ELSE "MissingAuthorityEncodingError"
        /\ last'.err = None =>
              /\ fs' = [fs EXCEPT !.perfDir = TRUE, !.scoreDir = TRUE]
              /\ encodings' = ExpectedEncodings
              /\ authority_format' = authority_format
              /\ authority' = ExpectedEncodings[authority_format]
              /\ performances' = ScanOfPerformances(fs')
              /\ scores' = ScanOfScores(fs')
        /\ (last.op = "update" /\ last.err = None) =>
              /\ last'.err = None
              /\ UNCHANGED <<fs, encodings, authority_format, authority,
                             performances, scores>>

C15_UpdateRederives == [][C15_Step]_vars

\* update() has returned after performances/ was removed out of band: the
\* directory is back and the index, which listed it, is empty.
C15_Witness ==
    /\ last.op = "update"
    /\ last.err = None
    /\ oob > 0
    /\ fs.perfDir
    /\ DOMAIN fs.perf = {}
    /\ DOMAIN performances = {}
    /\ "s1" \in DOMAIN scores

\* C16 (as claimed): a load_performance(name) whose re-scan succeeds fails
\* with PerformanceNotFoundError exactly when performances/ has no
\* subdirectory name at the time of the call, whatever the index held
\* before the call.
C16_Step ==
    (last'.op = "load_performance" /\ authority_format \in KindsOnDisk) =>
        (last'.err = "PerformanceNotFoundError"
            <=> last'.name \notin PerformanceDirsOnDisk)

C16_LookupAfterRescan == [][C16_Step]_vars

\* C17: when add_performance(name, audio, ...) fails because audio does not
\* exist, the performances index does not contain name after the failure
\* and performances/<name> is left on disk as an empty directory; an
\* update() called next puts name into the index.
C17_Step ==
    /\ \A src \in SourceArgs :
          (/\ src[1] \notin ExistingSources
           /\ last'.op = "add_performance"
           /\ last'.err = "SourceFileNotFoundError"
           /\ AddPerformance(last'.name, src[1], src[2], last'.overwrite)) =>
              /\ last'.name \notin DOMAIN performances'
              /\ last'.name \in DOMAIN fs'.perf
              /\ fs'.perf[last'.name] = [isdir |-> TRUE, files |-> {}]
    /\ (/\ last.op = "add_performance"
        /\ last.err = "SourceFileNotFoundError"
        /\ last'.op = "update"
        /\ last'.err = None) =>
           last.name \in DOMAIN performances'

C17_NothingCommitted == [][C17_Step]_vars

\* add_performance has failed on the missing audio file beside an existing
\* performance: the new directory is empty and not in the index.
C17_Witness ==
    /\ last.op = "add_performance"
    /\ last.err = "SourceFileNotFoundError"
    /\ last.name = "take2"
    /\ "take2" \in DOMAIN fs.perf
    /\ fs.perf["take2"] = [isdir |-> TRUE, files |-> {}]
    /\ DOMAIN performances = {"take1"}

\* The names remove_performance was called with during the last call.
RemovedNames == {last.removed[i] : i \in DOMAIN last.removed}

\* C18: clear_performances() calls remove_performance once for each name
\* that was in the performances index when the call started and for no
\* other name, whatever the re-scans inside remove_performance put into the
\* index: no name is passed twice, every name passed was in the index at
\* the start, and when the call returns every such name has been passed.
C18_Step ==
    last'.op = "clear_performances" =>
        /\ \A i, j \in DOMAIN last'.removed :
              i # j => last'.removed[i] # last'.removed[j]
        /\ \A i \in DOMAIN last'.removed :
              last'.removed[i] \in DOMAIN performances
        /\ last'.err = None =>
              \A n \in DOMAIN performances :
                  \E i \in DOMAIN last'.removed : last'.removed[i] = n

C19_Step ==
    (/\ last'.op = "add_performance"
     /\ ~last'.overwrite
     /\ last'.name \in DOMAIN fs.perf) =>
        /\ last'.err = IF last'.name \in DOMAIN performances
                       THEN "PerformanceExistsError"
                       ELSE "AlreadyExistsError"
        /\ last'.name \in DOMAIN fs'.perf
        /\ fs'.perf[last'.name] = fs.perf[last'.name]
        /\ fs' = fs
        /\ last'.deleted = <<>>

C19_ExistingKept == [][C19_Step]_vars

\* add_performance without overwrite has failed in os.mkdir on a directory
\* the index does not list, and the directory still holds its file.
C19_Witness ==
    /\ last.op = "add_performance"
    /\ ~last.overwrite
    /\ last.err = "AlreadyExistsError"
    /\ last.name \in PerformanceDirsOnDisk
    /\ fs.perf[last.name].files # {}
    /\ last.name \notin DOMAIN performances

\* The overwriting add_performance(name, audio, ...) steps with audio
\* missing, on a name in the index whose performance (the directory
\* performances/<name>) is on disk.
C20_Case(src) ==
    /\ src[1] \notin ExistingSources
    /\ last'.op = "add_performance"
    /\ last'.overwrite
    /\ last'.name \in DOMAIN performances
    /\ last'.name \in PerformanceDirsOnDisk
    /\ AddPerformance(last'.name, src[1], src[2], TRUE)

\* The old performance is gone: performances/<name> is an empty directory
\* and the index does not contain name.
C20_Lost ==
    /\ last'.err = "SourceFileNotFoundError"
    /\ last'.deleted = <<PerformancePath(last'.name)>>
    /\ last'.name \in DOMAIN fs'.perf
    /\ fs'.perf[last'.name] = [isdir |-> TRUE, files |-> {}]
    /\ last'.name \notin DOMAIN performances'

\* C20 (as claimed): add_performance(name, audio, overwrite=True) with audio
\* missing, on a name in the index, fails only after it has deleted the old
\* performance: after the failure performances/<name> is an empty
\* directory, none of the old files is left, and the index does not contain
\* name.
C20_AsClaimedStep == \A src \in SourceArgs : C20_Case(src) => C20_Lost

C20_AsClaimed == [][C20_AsClaimedStep]_vars

\* C20 (amended): the same, provided the re-scan inside remove_performance
\* succeeds (the authority file is on disk); when it does not, the call
\* fails with MissingAuthorityEncodingError before anything is deleted and
\* performances/<name> keeps its files.
C20_Step ==
    \A src \in SourceArgs :
        C20_Case(src) =>
            IF authority_format \in KindsOnDisk
            THEN C20_Lost
            ELSE /\ last'.err = "MissingAuthorityEncodingError"
                 /\ last'.deleted = <<>>
                 /\ fs'.perf = fs.perf

C20_OldPerformanceLost == [][C20_Step]_vars

\* The overwriting add_performance has failed on the missing audio file
\* after deleting take1: the directory is empty and not in the index.
C20_Witness ==
    /\ last.op = "add_performance"
    /\ last.overwrite
    /\ last.name = "take1"
    /\ last.err = "SourceFileNotFoundError"
    /\ last.deleted = <<PerformancePath("take1")>>
    /\ "take1" \in DOMAIN fs.perf
    /\ fs.perf["take1"] = [isdir |-> TRUE, files |-> {}]
    /\ "take1" \notin DOMAIN performances

====
